---- MODULE Spec2Model ----
(***************************************************************************)
(* The .flm container of flowmarker: save_flm writes a document text as    *)
(* the deflated member "document.json" of a zip container, load_flm reads  *)
(* it back and validates its "format" tag (src-tauri/src/lib.rs).          *)
(*                                                                         *)
(* A text is a sequence of lexical units of JSON: the punctuation, a       *)
(* blank, a number, and whole string literals.  A file is a sequence of    *)
(* units: data bytes and the three header records of a zip container.      *)
(***************************************************************************)
EXTENDS Integers, Sequences, FiniteSets, TLC

(* ------------------------------------------------------------------ *)
(* Bounds                                                             *)
(* ------------------------------------------------------------------ *)

\* Longest text enumerated exhaustively by SpecText.
MaxLen == 5

\* Most units a failing write_all leaves behind in the file.
MaxPartial == 1

(* ------------------------------------------------------------------ *)
(* Text and bytes                                                     *)
(* ------------------------------------------------------------------ *)

\* The string literals a text may hold, as lexical units.
StringLits == {"\"format\"", "\"flowmark\"", "\"title\"", "\"x\""}

\* The content of a string literal.
Unquote(tok) ==
  CASE tok = "\"format\""   -> "format"
    [] tok = "\"flowmark\"" -> "flowmark"
    [] tok = "\"title\""    -> "title"
    [] tok = "\"x\""        -> "x"

\* The characters of a text that SpecText enumerates exhaustively.
Alphabet == {"{", "}", ":", ",", " ", "\"format\"", "\"flowmark\""}

\* Every character a text of the model may hold.
Chars == Alphabet \cup StringLits \cup {"[", "]", "1"}

\* UTF-8: the byte of each character (a string literal stands for its
\* first letter).  All are below 128.
Utf8 ==
  [c \in Chars |->
     CASE c = "{" -> 123 [] c = "}" -> 125 [] c = "[" -> 91 [] c = "]" -> 93
       [] c = ":" -> 58  [] c = "," -> 44  [] c = " " -> 32 [] c = "1" -> 49
       [] c = "\"format\"" -> 102 [] c = "\"flowmark\"" -> 109
       [] c = "\"title\"" -> 116  [] c = "\"x\"" -> 120]

\* A byte that no UTF-8 text contains (0xFF).
BadByte == 255

\* str::as_bytes: the UTF-8 bytes of a text.
as_bytes(s) == [i \in 1..Len(s) |-> Utf8[s[i]]]

\* The character a byte decodes to; "?" for a byte outside the alphabet.
Decode(b) == IF \E c \in Chars : Utf8[c] = b
             THEN CHOOSE c \in Chars : Utf8[c] = b
             ELSE "?"

\* String::from_utf8 as read_to_string applies it: fails on a byte that
\* is no UTF-8.
from_utf8(bytes) ==
  IF \E i \in 1..Len(bytes) : bytes[i] >= 128
  THEN [ok |-> FALSE]
  ELSE [ok |-> TRUE, val |-> [i \in 1..Len(bytes) |-> Decode(bytes[i])]]

(* ------------------------------------------------------------------ *)
(* serde_json::from_str and serde_json::Value                         *)
(* ------------------------------------------------------------------ *)

VStr(s) == [t |-> "str", s |-> s]
VNum == [t |-> "num"]
VArr(items) == [t |-> "arr", items |-> items]
VObj(members) == [t |-> "obj", members |-> members]

ParseFail == [ok |-> FALSE]
Parsed(v, i) == [ok |-> TRUE, v |-> v, i |-> i]

RECURSIVE SkipWs(_, _)
\* The first index from i on that holds no blank.
SkipWs(s, i) == IF i <= Len(s) /\ s[i] = " " THEN SkipWs(s, i + 1) ELSE i

\* Map::insert: a repeated key replaces the value stored for it.
MapInsert(members, k, v) ==
  IF \E n \in 1..Len(members) : members[n].k = k
  THEN [n \in 1..Len(members) |->
          IF members[n].k = k THEN [k |-> k, v |-> v] ELSE members[n]]
  ELSE Append(members, [k |-> k, v |-> v])

RECURSIVE ParseValue(_, _), ParseElems(_, _, _), ParseMembers(_, _, _)

\* One JSON value starting at index i, blanks before it skipped.
ParseValue(s, i) ==
  LET j == SkipWs(s, i) IN
  IF j > Len(s) THEN ParseFail
  ELSE IF s[j] \in StringLits THEN Parsed(VStr(Unquote(s[j])), j + 1)
  ELSE IF s[j] = "1" THEN Parsed(VNum, j + 1)
  ELSE IF s[j] = "["
    THEN LET k == SkipWs(s, j + 1) IN
         IF k <= Len(s) /\ s[k] = "]" THEN Parsed(VArr(<<>>), k + 1)
         ELSE ParseElems(s, j + 1, <<>>)
  ELSE IF s[j] = "{"
    THEN LET k == SkipWs(s, j + 1) IN
         IF k <= Len(s) /\ s[k] = "}" THEN Parsed(VObj(<<>>), k + 1)
         ELSE ParseMembers(s, j + 1, <<>>)
  ELSE ParseFail

\* The elements of an array after "[" or ",", up to its "]".
ParseElems(s, i, acc) ==
  LET r == ParseValue(s, i) IN
  IF ~r.ok THEN ParseFail
  ELSE LET k == SkipWs(s, r.i) IN
       IF k > Len(s) THEN ParseFail
       ELSE IF s[k] = "," THEN ParseElems(s, k + 1, Append(acc, r.v))
       ELSE IF s[k] = "]" THEN Parsed(VArr(Append(acc, r.v)), k + 1)
       ELSE ParseFail

\* The members of an object after "{" or ",", up to its "}".
ParseMembers(s, i, acc) ==
  LET j == SkipWs(s, i) IN
  IF j > Len(s) \/ s[j] \notin StringLits THEN ParseFail
  ELSE LET k == SkipWs(s, j + 1) IN
       IF k > Len(s) \/ s[k] # ":" THEN ParseFail
       ELSE LET r == ParseValue(s, k + 1) IN
            IF ~r.ok THEN ParseFail
            ELSE LET n == SkipWs(s, r.i)
                     m == MapInsert(acc, Unquote(s[j]), r.v)
                 IN  IF n > Len(s) THEN ParseFail
                     ELSE IF s[n] = "," THEN ParseMembers(s, n + 1, m)
                     ELSE IF s[n] = "}" THEN Parsed(VObj(m), n + 1)
                     ELSE ParseFail

\* serde_json::from_str: one value, then only blanks up to the end.
from_str(s) ==
  LET r == ParseValue(s, 1) IN
  IF ~r.ok THEN ParseFail
  ELSE IF SkipWs(s, r.i) <= Len(s) THEN ParseFail
  ELSE r

None == [some |-> FALSE]
Some(x) == [some |-> TRUE, x |-> x]

\* Value::get with a string index: the member of an object, None for
\* any other value.
get(v, key) ==
  IF v.t = "obj" /\ \E n \in 1..Len(v.members) : v.members[n].k = key
  THEN Some((CHOOSE m \in {v.members[n] : n \in 1..Len(v.members)} : m.k = key).v)
  ELSE None

\* Value::as_str.
as_str(v) == IF v.t = "str" THEN Some(v.s) ELSE None

\* Option::and_then with as_str.
and_then_as_str(o) == IF o.some THEN as_str(o.x) ELSE None

\* A format check that only looks for the key.
FormatMismatchKeyOnly(doc) == ~get(doc, "format").some

\* The condition of the format check: doc.get("format").and_then(as_str)
\* != Some("flowmark").
FormatMismatch(doc) == and_then_as_str(get(doc, "format")) # Some("flowmark")

(* ------------------------------------------------------------------ *)
(* Results                                                            *)
(* ------------------------------------------------------------------ *)

Ok(v) == [ok |-> TRUE, val |-> v]
Err(e) == [ok |-> FALSE, err |-> e]

\* Ok(()) of save_flm.
Unit == <<>>

ErrCreate   == "Failed to create file"
ErrAdd      == "Failed to add file to ZIP"
ErrWrite    == "Failed to write to ZIP"
ErrFinalize == "Failed to finalize ZIP"
ErrOpen     == "Failed to open file"
ErrZip      == "Failed to read ZIP"
ErrMember   == "document.json not found in .flm file"
ErrRead     == "Failed to read document.json"
ErrJson     == "Invalid JSON in document.json"
ErrFormat   == "Invalid format: expected 'flowmark'"

\* The member name both handlers use.
MemberName == "document.json"

(* ------------------------------------------------------------------ *)
(* Files and the zip container                                        *)
(* ------------------------------------------------------------------ *)

\* A file of the file system: absent, or a sequence of units.
NoFile == [exists |-> FALSE, data |-> <<>>]
FileOf(data) == [exists |-> TRUE, data |-> data]

\* The units of a file.
Byte(v) == [sig |-> "byte", v |-> v]
LocalHeader(name, method, crc, size) ==
  [sig |-> "PK34", name |-> name, method |-> method, crc |-> crc, size |-> size]
CentralHeader(name, method, crc, size, offset) ==
  [sig |-> "PK12", name |-> name, method |-> method, crc |-> crc,
   size |-> size, offset |-> offset]
EndOfCentralDir(entries, cd_offset) ==
  [sig |-> "PK56", entries |-> entries, cd_offset |-> cd_offset]

Bytes(bs) == [i \in 1..Len(bs) |-> Byte(bs[i])]

Max(a, b) == IF a >= b THEN a ELSE b
Min(a, b) == IF a <= b THEN a ELSE b

\* A write of units at an offset of a file: it replaces what is there and
\* extends the file, a gap reading as zero bytes.
WriteAt(data, off, units) ==
  LET head == IF off <= Len(data) THEN SubSeq(data, 1, off)
              ELSE data \o [i \in 1..(off - Len(data)) |-> Byte(0)]
      tail == SubSeq(data, off + Len(units) + 1, Len(data))
  IN  head \o units \o tail

RECURSIVE RunLen(_, _)
\* The length of the run of equal bytes that starts at index i.
RunLen(bs, i) ==
  IF i < Len(bs) /\ bs[i + 1] = bs[i] THEN 1 + RunLen(bs, i + 1) ELSE 1

RECURSIVE Deflate(_)
\* CompressionMethod::Deflated, as a run-length code: each run of equal
\* bytes becomes its length and the byte.
Deflate(bs) ==
  IF bs = <<>> THEN <<>>
  ELSE LET n == RunLen(bs, 1) IN
       <<n, bs[1]>> \o Deflate(SubSeq(bs, n + 1, Len(bs)))

RECURSIVE Inflate(_)
\* The decoder of Deflate; fails on a stream that is no code.
Inflate(zs) ==
  IF zs = <<>> THEN [ok |-> TRUE, val |-> <<>>]
  ELSE IF Len(zs) = 1 \/ zs[1] < 1 THEN [ok |-> FALSE]
  ELSE LET rest == Inflate(SubSeq(zs, 3, Len(zs))) IN
       IF ~rest.ok THEN [ok |-> FALSE]
       ELSE [ok |-> TRUE, val |-> [i \in 1..zs[1] |-> zs[2]] \o rest.val]

RECURSIVE Crc32(_)
\* The checksum of the uncompressed bytes of a member.
Crc32(bs) ==
  IF bs = <<>> THEN 0
  ELSE (3 * Crc32(SubSeq(bs, 1, Len(bs) - 1)) + bs[Len(bs)]) % 65521

(* ------------------------------------------------------------------ *)
(* save_flm, step by step                                             *)
(* ------------------------------------------------------------------ *)

\* What an I/O fault leaves behind: the step it hits and how many of that
\* step's writes were done before it.
NoFault == [at |-> "none", done |-> 0]
Fault(at, done) == [at |-> at, done |-> done]

\* A file opened for writing without truncation.
FileCreateKeep(file) == FileOf(file.data)

\* File::create: the file exists and is empty.
FileCreate(file) == FileOf(<<>>)

\* ZipWriter::start_file: the local header, its checksum and size still
\* to come, at the start of the file.
start_file(file, name) ==
  FileOf(WriteAt(file.data, 0, <<LocalHeader(name, "Deflated", 0, 0)>>))

\* A write_all that stores the bytes as they are.
write_all_raw(file, bytes, done) ==
  FileOf(WriteAt(file.data, 1, SubSeq(Bytes(bytes), 1, Min(done, Len(bytes)))))

\* write_all: the first `done` units of the deflated bytes, after the
\* local header.
write_all(file, bytes, done) ==
  FileOf(WriteAt(file.data, 1, SubSeq(Bytes(Deflate(bytes)), 1, done)))

\* A finish whose checksum is that of the deflated bytes.
FinishWritesCrcOfDeflated(name, bytes) ==
  LET size == Len(Deflate(bytes))
      crc == Crc32(Deflate(bytes)) IN
  << [off |-> 0, unit |-> LocalHeader(name, "Deflated", crc, size)],
     [off |-> size + 1,
      unit |-> CentralHeader(name, "Deflated", crc, size, 0)],
     [off |-> size + 2, unit |-> EndOfCentralDir(1, size + 1)] >>

\* The three writes of ZipWriter::finish for the one member: the local
\* header with checksum and size, the central header, the end record.
FinishWrites(name, bytes) ==
  LET size == Len(Deflate(bytes))
      crc == Crc32(bytes) IN
  << [off |-> 0, unit |-> LocalHeader(name, "Deflated", crc, size)],
     [off |-> size + 1,
      unit |-> CentralHeader(name, "Deflated", crc, size, 0)],
     [off |-> size + 2, unit |-> EndOfCentralDir(1, size + 1)] >>

RECURSIVE ApplyWrites(_, _, _)
\* The first `done` writes of ws applied to data.
ApplyWrites(data, ws, done) ==
  IF done = 0 THEN data
  ELSE LET before == ApplyWrites(data, ws, done - 1) IN
       WriteAt(before, ws[done].off, <<ws[done].unit>>)

\* ZipWriter::finish, the first `done` of its writes.
finish(file, name, bytes, done) ==
  FileOf(ApplyWrites(file.data, FinishWrites(name, bytes), done))

\* The number of units write_all writes when it succeeds.
WriteLen(document_json) == Len(Deflate(as_bytes(document_json)))

\* The number of writes of a finish that succeeds.
FinishLen == Len(FinishWrites(MemberName, <<>>))

\* save_flm as a whole, under a fault: the file it leaves and its result.
save_flm(file, document_json, fault) ==
  LET bytes == as_bytes(document_json)
      f1 == FileCreate(file)
      f2 == start_file(f1, MemberName)
      f3 == write_all(f2, bytes, WriteLen(document_json))
      f4 == finish(f3, MemberName, bytes, FinishLen)
  IN  CASE fault.at = "create" -> [file |-> file, result |-> Err(ErrCreate)]
        [] fault.at = "start_file" -> [file |-> f1, result |-> Err(ErrAdd)]
        [] fault.at = "write_all" ->
             [file |-> write_all(f2, bytes, fault.done),
              result |-> Err(ErrWrite)]
        [] fault.at = "finish" ->
             [file |-> finish(f3, MemberName, bytes, fault.done),
              result |-> Err(ErrFinalize)]
        [] OTHER -> [file |-> f4, result |-> Ok(Unit)]

(* ------------------------------------------------------------------ *)
(* load_flm, stage by stage                                           *)
(* ------------------------------------------------------------------ *)

\* File::open for reading.
FileOpen(file) == IF file.exists THEN Ok(file) ELSE Err(ErrOpen)

\* A reader that takes a file without an end record for an empty archive.
ZipArchive_new_lenient(data) ==
  IF Len(data) = 0 \/ data[Len(data)].sig # "PK56" THEN Ok(<<>>)
  ELSE LET e == data[Len(data)] IN
       IF e.cd_offset + e.entries >= Len(data) THEN Err("InvalidArchive")
       ELSE IF \E i \in 1..e.entries : data[e.cd_offset + i].sig # "PK12"
       THEN Err("InvalidArchive")
       ELSE Ok([i \in 1..e.entries |-> data[e.cd_offset + i]])

\* ZipArchive::new: the end record is the last unit of the file, and the
\* central headers it counts lie where it says.
ZipArchive_new(data) ==
  IF Len(data) = 0 \/ data[Len(data)].sig # "PK56" THEN Err("InvalidArchive")
  ELSE LET e == data[Len(data)] IN
       IF e.cd_offset + e.entries >= Len(data) THEN Err("InvalidArchive")
       ELSE IF \E i \in 1..e.entries : data[e.cd_offset + i].sig # "PK12"
       THEN Err("InvalidArchive")
       ELSE Ok([i \in 1..e.entries |-> data[e.cd_offset + i]])

\* A member name with its capitals lowered.
Lower(name) == IF name = "Document.json" THEN "document.json" ELSE name

\* A lookup that ignores the case of member names.
by_name_ignoring_case(archive, data, name) ==
  LET idx == {i \in 1..Len(archive) : Lower(archive[i].name) = Lower(name)} IN
  IF idx = {} THEN Err("FileNotFound")
  ELSE LET h == archive[CHOOSE i \in idx : \A j \in idx : j <= i] IN
       IF h.offset >= Len(data) \/ data[h.offset + 1].sig # "PK34"
       THEN Err("InvalidArchive")
       ELSE IF h.method \notin {"Stored", "Deflated"}
       THEN Err("UnsupportedArchive")
       ELSE Ok([start |-> h.offset + 1, size |-> h.size,
                method |-> h.method, crc |-> h.crc])

\* ZipArchive::by_name: the last entry of that name, whose local header
\* must lie at the entry's offset.
by_name(archive, data, name) ==
  LET idx == {i \in 1..Len(archive) : archive[i].name = name} IN
  IF idx = {} THEN Err("FileNotFound")
  ELSE LET h == archive[CHOOSE i \in idx : \A j \in idx : j <= i] IN
       IF h.offset >= Len(data) \/ data[h.offset + 1].sig # "PK34"
       THEN Err("InvalidArchive")
       ELSE IF h.method \notin {"Stored", "Deflated"}
       THEN Err("UnsupportedArchive")
       ELSE Ok([start |-> h.offset + 1, size |-> h.size,
                method |-> h.method, crc |-> h.crc])

\* Read::read_to_string on the member: its units, inflated, checked
\* against the checksum, decoded as UTF-8.
read_to_string(member, data) ==
  IF member.start + member.size > Len(data) THEN Err("UnexpectedEof")
  ELSE LET raw == SubSeq(data, member.start + 1, member.start + member.size) IN
       IF \E i \in 1..Len(raw) : raw[i].sig # "byte" THEN Err("InvalidData")
       ELSE LET zs == [i \in 1..Len(raw) |-> raw[i].v]
                bs == IF member.method = "Deflated" THEN Inflate(zs)
                      ELSE [ok |-> TRUE, val |-> zs]
            IN  IF ~bs.ok THEN Err("InvalidData")
                ELSE IF Crc32(bs.val) # member.crc THEN Err("InvalidChecksum")
                ELSE LET s == from_utf8(bs.val) IN
                     IF ~s.ok THEN Err("InvalidUtf8") ELSE Ok(s.val)

\* The literal of a string.
Quote(str) ==
  CASE str = "format" -> "\"format\"" [] str = "flowmark" -> "\"flowmark\""
    [] str = "title" -> "\"title\""   [] str = "x" -> "\"x\""

RECURSIVE to_string(_), JoinValues(_), JoinMembers(_)
\* serde_json::to_string: the compact text of a value.
to_string(v) ==
  CASE v.t = "str" -> <<Quote(v.s)>>
    [] v.t = "num" -> <<"1">>
    [] v.t = "arr" -> <<"[">> \o JoinValues(v.items) \o <<"]">>
    [] v.t = "obj" -> <<"{">> \o JoinMembers(v.members) \o <<"}">>
JoinValues(items) ==
  IF items = <<>> THEN <<>>
  ELSE to_string(items[1])
       \o (IF Len(items) = 1 THEN <<>> ELSE <<",">> \o JoinValues(Tail(items)))
JoinMembers(members) ==
  IF members = <<>> THEN <<>>
  ELSE <<Quote(members[1].k), ":">> \o to_string(members[1].v)
       \o (IF Len(members) = 1 THEN <<>> ELSE <<",">> \o JoinMembers(Tail(members)))

\* A load_flm that returns the parsed value written out again.
load_flm_reserialized(file) ==
  LET opened == FileOpen(file) IN
  IF ~opened.ok THEN Err(ErrOpen)
  ELSE LET archive == ZipArchive_new(file.data) IN
  IF ~archive.ok THEN Err(ErrZip)
  ELSE LET document_file == by_name(archive.val, file.data, MemberName) IN
  IF ~document_file.ok THEN Err(ErrMember)
  ELSE LET document_json == read_to_string(document_file.val, file.data) IN
  IF ~document_json.ok THEN Err(ErrRead)
  ELSE LET doc == from_str(document_json.val) IN
  IF ~doc.ok THEN Err(ErrJson)
  ELSE IF FormatMismatch(doc.v) THEN Err(ErrFormat)
  ELSE Ok(to_string(doc.v))

\* load_flm as a whole: the six stages in order, each error returned at
\* once.
load_flm(file) ==
  LET opened == FileOpen(file) IN
  IF ~opened.ok THEN Err(ErrOpen)
  ELSE LET archive == ZipArchive_new(file.data) IN
  IF ~archive.ok THEN Err(ErrZip)
  ELSE LET document_file == by_name(archive.val, file.data, MemberName) IN
  IF ~document_file.ok THEN Err(ErrMember)
  ELSE LET document_json == read_to_string(document_file.val, file.data) IN
  IF ~document_json.ok THEN Err(ErrRead)
  ELSE LET doc == from_str(document_json.val) IN
  IF ~doc.ok THEN Err(ErrJson)
  ELSE IF FormatMismatch(doc.v) THEN Err(ErrFormat)
  ELSE Ok(document_json.val)

(* ------------------------------------------------------------------ *)
(* Inputs of the model                                                *)
(* ------------------------------------------------------------------ *)

Paths == {"a.flm", "b.flm"}
Procs == {1, 2}

\* {"format":"flowmark"}
DocTagged == <<"{", "\"format\"", ":", "\"flowmark\"", "}">>
\* {"format":"flowmark","title":"x"}
DocTitled ==
  <<"{", "\"format\"", ":", "\"flowmark\"", ",", "\"title\"", ":", "\"x\"", "}">>
\* {"title":"x"}
DocNoTag == <<"{", "\"title\"", ":", "\"x\"", "}">>
\* {"format":
DocBroken == <<"{", "\"format\"", ":">>

\* The document texts the callers of Spec save.
Docs == {DocTagged, DocTitled}

RECURSIVE PackData(_), PackDir(_, _)
\* The local headers and data of the members a foreign zip writer stores.
PackData(members) ==
  IF members = <<>> THEN <<>>
  ELSE LET m == members[1]
           zs == IF m.method = "Deflated" THEN Deflate(m.bytes) ELSE m.bytes
       IN  <<LocalHeader(m.name, m.method, Crc32(m.bytes), Len(zs))>>
           \o Bytes(zs) \o PackData(Tail(members))

\* Their central headers, the first member's local header at offset off.
PackDir(members, off) ==
  IF members = <<>> THEN <<>>
  ELSE LET m == members[1]
           zs == IF m.method = "Deflated" THEN Deflate(m.bytes) ELSE m.bytes
       IN  <<CentralHeader(m.name, m.method, Crc32(m.bytes), Len(zs), off)>>
           \o PackDir(Tail(members), off + 1 + Len(zs))

\* A well-formed container holding the given members.
Pack(members) ==
  LET data == PackData(members) IN
  FileOf(data \o PackDir(members, 0)
         \o <<EndOfCentralDir(Len(members), Len(data))>>)

Member(name, method, bytes) == [name |-> name, method |-> method, bytes |-> bytes]

\* A zero-byte file.
ZeroByte == FileOf(<<>>)

\* Files other programs left at a path.
Garbage == FileOf(Bytes(as_bytes(DocTagged)))
EmptyZip == Pack(<<>>)
OtherZip == Pack(<<Member("Document.json", "Deflated", as_bytes(DocTagged)),
                   Member("other.txt", "Stored", as_bytes(<<"1">>))>>)
BadUtf8Zip == Pack(<<Member(MemberName, "Stored", <<Utf8["{"], BadByte, Utf8["}"]>>)>>)
BrokenZip == Pack(<<Member(MemberName, "Deflated", as_bytes(DocBroken))>>)
NoTagZip == Pack(<<Member(MemberName, "Deflated", as_bytes(DocNoTag))>>)

\* The files a path may hold at the start.  (A zero-byte file is what a
\* save leaves that fails right after creating its file.)
InitFiles ==
  {NoFile, Garbage, EmptyZip, OtherZip, BadUtf8Zip, BrokenZip, NoTagZip}

(* ------------------------------------------------------------------ *)
(* State                                                              *)
(* ------------------------------------------------------------------ *)

VARIABLES
  fs,             \* the file at each path
  pc,             \* where each caller's call stands
  op,             \* the handler it runs: "save", "load" or "none"
  path,           \* the call's path argument
  document_json,  \* save_flm's document_json argument
  local,          \* the call's local value: the fault that hit a save,
                  \* load_flm's archive, document_file, document_json, doc
  result,         \* the call's result
  prev            \* the file at the call's path when the call began

vars == <<fs, pc, op, path, document_json, local, result, prev>>

NoResult == Err("")
NoPath == "a.flm"

Idle(S) ==
  /\ pc = [i \in S |-> "idle"]
  /\ op = [i \in S |-> "none"]
  /\ path = [i \in S |-> NoPath]
  /\ document_json = [i \in S |-> <<>>]
  /\ local = [i \in S |-> NoFault]
  /\ result = [i \in S |-> NoResult]
  /\ prev = [i \in S |-> NoFile]

Init ==
  /\ fs \in [Paths -> InitFiles]
  /\ Idle(Procs)

\* The calls on path p, other than caller i's, that have not returned.
Running(i, p) == {j \in Procs \ {i} : pc[j] # "idle" /\ path[j] = p}

\* Caller i invokes a handler.  The application has one call in flight
\* for each document: calls on one path are serialized by the caller.
Call(i, o, p, d) ==
  /\ pc[i] = "idle"
  /\ Running(i, p) = {}
  /\ pc' = [pc EXCEPT ![i] = IF o = "save" THEN "create" ELSE "open"]
  /\ op' = [op EXCEPT ![i] = o]
  /\ path' = [path EXCEPT ![i] = p]
  /\ document_json' = [document_json EXCEPT ![i] = d]
  /\ prev' = [prev EXCEPT ![i] = fs[p]]
  /\ UNCHANGED <<fs, local, result>>

\* The call returns r: nothing more of it runs.
Finish(i, r) ==
  /\ pc' = [pc EXCEPT ![i] = "done"]
  /\ result' = [result EXCEPT ![i] = r]

\* The call goes on to stage s.
Goto(i, s) ==
  /\ pc' = [pc EXCEPT ![i] = s]
  /\ UNCHANGED result

Frame == UNCHANGED <<op, path, document_json, prev>>

\* A save that opens its file only when the first member is started.
SaveCreateDeferred(i) ==
  /\ pc[i] = "create"
  /\ \/ /\ Goto(i, "start_file")
        /\ UNCHANGED <<fs, local>>
     \/ /\ Finish(i, Err(ErrCreate))
        /\ local' = [local EXCEPT ![i] = Fault("create", 0)]
        /\ UNCHANGED fs
  /\ Frame

\* let file = File::create(&path)...?
SaveCreate(i) ==
  /\ pc[i] = "create"
  /\ \/ /\ fs' = [fs EXCEPT ![path[i]] = FileCreate(@)]
        /\ Goto(i, "start_file")
        /\ UNCHANGED local
     \/ /\ Finish(i, Err(ErrCreate))
        /\ local' = [local EXCEPT ![i] = Fault("create", 0)]
        /\ UNCHANGED fs
  /\ Frame

\* zip.start_file("document.json", options)...?
SaveStartFile(i) ==
  /\ pc[i] = "start_file"
  /\ \/ /\ fs' = [fs EXCEPT ![path[i]] = start_file(@, MemberName)]
        /\ Goto(i, "write_all")
        /\ UNCHANGED local
     \/ /\ Finish(i, Err(ErrAdd))
        /\ local' = [local EXCEPT ![i] = Fault("start_file", 0)]
        /\ UNCHANGED fs
  /\ Frame

\* zip.write_all(document_json.as_bytes())...?
SaveWriteAll(i) ==
  /\ pc[i] = "write_all"
  /\ LET bytes == as_bytes(document_json[i])
         full == WriteLen(document_json[i]) IN
     \/ /\ fs' = [fs EXCEPT ![path[i]] = write_all(@, bytes, full)]
        /\ Goto(i, "finish")
        /\ UNCHANGED local
     \/ \E done \in 0..Min(MaxPartial, full - 1) :
          /\ fs' = [fs EXCEPT ![path[i]] = write_all(@, bytes, done)]
          /\ Finish(i, Err(ErrWrite))
          /\ local' = [local EXCEPT ![i] = Fault("write_all", done)]
  /\ Frame

\* zip.finish()...?; Ok(())
SaveFinish(i) ==
  /\ pc[i] = "finish"
  /\ LET bytes == as_bytes(document_json[i]) IN
     \/ /\ fs' = [fs EXCEPT ![path[i]] = finish(@, MemberName, bytes, FinishLen)]
        /\ Finish(i, Ok(Unit))
        /\ UNCHANGED local
     \/ \E done \in 0..(FinishLen - 1) :
          /\ fs' = [fs EXCEPT ![path[i]] = finish(@, MemberName, bytes, done)]
          /\ Finish(i, Err(ErrFinalize))
          /\ local' = [local EXCEPT ![i] = Fault("finish", done)]
  /\ Frame

\* let file = File::open(&path)...?
LoadOpen(i) ==
  /\ pc[i] = "open"
  /\ IF FileOpen(fs[path[i]]).ok
     THEN Goto(i, "archive")
     ELSE Finish(i, Err(ErrOpen))
  /\ UNCHANGED <<fs, local>>
  /\ Frame

\* A load that reads the file of one fixed path, whatever its argument.
LoadArchiveFixedPath(i) ==
  /\ pc[i] = "archive"
  /\ LET archive == ZipArchive_new(fs[NoPath].data) IN
     IF archive.ok
     THEN Goto(i, "by_name") /\ local' = [local EXCEPT ![i] = archive.val]
     ELSE Finish(i, Err(ErrZip)) /\ UNCHANGED local
  /\ UNCHANGED fs
  /\ Frame

\* let mut archive = ZipArchive::new(file)...?
LoadArchive(i) ==
  /\ pc[i] = "archive"
  /\ LET archive == ZipArchive_new(fs[path[i]].data) IN
     IF archive.ok
     THEN Goto(i, "by_name") /\ local' = [local EXCEPT ![i] = archive.val]
     ELSE Finish(i, Err(ErrZip)) /\ UNCHANGED local
  /\ UNCHANGED fs
  /\ Frame

\* let mut document_file = archive.by_name("document.json")...?
LoadByName(i) ==
  /\ pc[i] = "by_name"
  /\ LET document_file == by_name(local[i], fs[path[i]].data, MemberName) IN
     IF document_file.ok
     THEN Goto(i, "read") /\ local' = [local EXCEPT ![i] = document_file.val]
     ELSE Finish(i, Err(ErrMember)) /\ UNCHANGED local
  /\ UNCHANGED fs
  /\ Frame

\* document_file.read_to_string(&mut document_json)...?
LoadRead(i) ==
  /\ pc[i] = "read"
  /\ LET text == read_to_string(local[i], fs[path[i]].data) IN
     IF text.ok
     THEN Goto(i, "parse") /\ local' = [local EXCEPT ![i] = text.val]
     ELSE Finish(i, Err(ErrRead)) /\ UNCHANGED local
  /\ UNCHANGED fs
  /\ Frame

\* A load that goes on to the format check when the text does not parse.
LoadParseLenient(i) ==
  /\ pc[i] = "parse"
  /\ LET doc == from_str(local[i]) IN
     /\ Goto(i, "check")
     /\ local' = [local EXCEPT ![i] =
                    [document_json |-> @,
                     doc |-> IF doc.ok THEN doc.v ELSE VObj(<<>>)]]
  /\ UNCHANGED fs
  /\ Frame

\* let doc: serde_json::Value = serde_json::from_str(&document_json)...?
LoadParse(i) ==
  /\ pc[i] = "parse"
  /\ LET doc == from_str(local[i]) IN
     IF doc.ok
     THEN /\ Goto(i, "check")
          /\ local' = [local EXCEPT ![i] = [document_json |-> @, doc |-> doc.v]]
     ELSE Finish(i, Err(ErrJson)) /\ UNCHANGED local
  /\ UNCHANGED fs
  /\ Frame

\* if doc.get("format")... != Some("flowmark") { return Err(...) }
\* Ok(document_json)
LoadCheck(i) ==
  /\ pc[i] = "check"
  /\ IF FormatMismatch(local[i].doc)
     THEN Finish(i, Err(ErrFormat))
     ELSE Finish(i, Ok(local[i].document_json))
  /\ UNCHANGED <<fs, local>>
  /\ Frame

\* The caller takes the result; it may call again.
Return(i) ==
  /\ pc[i] = "done"
  /\ pc' = [pc EXCEPT ![i] = "idle"]
  /\ op' = [op EXCEPT ![i] = "none"]
  /\ path' = [path EXCEPT ![i] = NoPath]
  /\ document_json' = [document_json EXCEPT ![i] = <<>>]
  /\ local' = [local EXCEPT ![i] = NoFault]
  /\ result' = [result EXCEPT ![i] = NoResult]
  /\ prev' = [prev EXCEPT ![i] = NoFile]
  /\ UNCHANGED fs

CallSave == \E i \in Procs, p \in Paths, d \in Docs : Call(i, "save", p, d)
CallLoad == \E i \in Procs, p \in Paths : Call(i, "load", p, <<>>)

Next ==
  \/ CallSave
  \/ CallLoad
  \/ \E i \in Procs : SaveCreate(i)
  \/ \E i \in Procs : SaveStartFile(i)
  \/ \E i \in Procs : SaveWriteAll(i)
  \/ \E i \in Procs : SaveFinish(i)
  \/ \E i \in Procs : LoadOpen(i)
  \/ \E i \in Procs : LoadArchive(i)
  \/ \E i \in Procs : LoadByName(i)
  \/ \E i \in Procs : LoadRead(i)
  \/ \E i \in Procs : LoadParse(i)
  \/ \E i \in Procs : LoadCheck(i)
  \/ \E i \in Procs : Return(i)

Spec == Init /\ [][Next]_vars

(* ------------------------------------------------------------------ *)
(* SpecText: one caller, whole handlers, every text up to MaxLen       *)
(* ------------------------------------------------------------------ *)

\* { "format" : "flowmark" } with blanks, two of them in a row
DocSpaced ==
  <<" ", "{", " ", " ", "\"format\"", ":", " ", "\"flowmark\"", "}", " ">>
\* {"format":"x","format":"flowmark"}
DocDupLast ==
  <<"{", "\"format\"", ":", "\"x\"", ",", "\"format\"", ":", "\"flowmark\"", "}">>
\* {"format":"flowmark","format":"x"}
DocDupFirst ==
  <<"{", "\"format\"", ":", "\"flowmark\"", ",", "\"format\"", ":", "\"x\"", "}">>
\* {"title":{"format":"flowmark"}}
DocNested ==
  <<"{", "\"title\"", ":", "{", "\"format\"", ":", "\"flowmark\"", "}", "}">>
\* ["format","flowmark"]
DocArray == <<"[", "\"format\"", ",", "\"flowmark\"", "]">>
\* {"format":1}
DocNumTag == <<"{", "\"format\"", ":", "1", "}">>
\* {"title":[1,[],{}],"format":"flowmark"}
DocDeep ==
  <<"{", "\"title\"", ":", "[", "1", ",", "[", "]", ",", "{", "}", "]", ",",
    "\"format\"", ":", "\"flowmark\"", "}">>
\* {"format":"flowmark","title":"x"}}
DocTrailing == DocTitled \o <<"}">>

Samples ==
  {DocTagged, DocTitled, DocNoTag, DocBroken, DocSpaced, DocDupLast, DocDupFirst,
   DocNested, DocArray, DocNumTag, DocDeep, DocTrailing}

\* Every text over Alphabet up to MaxLen, and the samples.
Texts == UNION {[1..n -> Alphabet] : n \in 0..MaxLen} \cup Samples

TextPath == "a.flm"
Caller == 1

InitText ==
  /\ fs = [p \in Paths |-> NoFile]
  /\ Idle(Procs)

\* A whole call of caller i, from idle to its result.
Whole(i, o, p, d, f, r, fault) ==
  /\ pc[i] \in {"idle", "done"}
  /\ pc' = [pc EXCEPT ![i] = "done"]
  /\ op' = [op EXCEPT ![i] = o]
  /\ path' = [path EXCEPT ![i] = p]
  /\ document_json' = [document_json EXCEPT ![i] = d]
  /\ local' = [local EXCEPT ![i] = fault]
  /\ result' = [result EXCEPT ![i] = r]
  /\ prev' = [prev EXCEPT ![i] = fs[p]]
  /\ fs' = [fs EXCEPT ![p] = f]

\* save_flm(TextPath, d) for some text d, no fault hitting it.
TextSave ==
  /\ op[Caller] = "none"
  /\ \E d \in Texts :
       LET r == save_flm(fs[TextPath], d, NoFault) IN
       Whole(Caller, "save", TextPath, d, r.file, r.result, NoFault)

\* Another program stores d as document.json, not deflated and after
\* another member, in a container at TextPath.
TextPack ==
  /\ op[Caller] = "none"
  /\ \E d \in Texts :
       Whole(Caller, "pack", TextPath, d,
             Pack(<<Member("other.txt", "Stored", as_bytes(<<"1">>)),
                    Member(MemberName, "Stored", as_bytes(d))>>),
             Ok(Unit), NoFault)

\* load_flm(TextPath), right after the file was written.
TextLoad ==
  /\ op[Caller] \in {"save", "pack"}
  /\ Whole(Caller, "load", TextPath, <<>>, fs[TextPath],
           load_flm(fs[TextPath]), NoFault)

NextText ==
  \/ TextSave
  \/ TextPack
  \/ TextLoad

SpecText == InitText /\ [][NextText]_vars

(* ------------------------------------------------------------------ *)
(* Properties                                                         *)
(* ------------------------------------------------------------------ *)

\* The parsed value is an object whose "format" member is the string
\* "flowmark".
HasTag(v) ==
  /\ v.t = "obj"
  /\ \E n \in 1..Len(v.members) :
       v.members[n] = [k |-> "format", v |-> VStr("flowmark")]

\* The text parses as JSON and carries the tag.
ValidTagged(d) == from_str(d).ok /\ HasTag(from_str(d).v)

\* The text parses as JSON and does not carry the tag.
ValidUntagged(d) == from_str(d).ok /\ ~HasTag(from_str(d).v)

\* The container save_flm writes for a text on a fresh path.
Saved(d) == save_flm(NoFile, d, NoFault).file

\* The container TextPack stores for a text.
Packed(d) ==
  Pack(<<Member("other.txt", "Stored", as_bytes(<<"1">>)),
         Member(MemberName, "Stored", as_bytes(d))>>)

\* Caller i's call of handler o has returned.
Returned(i, o) == op[i] = o /\ pc[i] = "done"

\* C1: a save_flm of a valid tagged text that returns Ok, followed at once
\* by load_flm on the same path, makes load_flm return Ok of that very
\* text.
C1_RoundTrip ==
  [][(/\ Returned(Caller, "save")
      /\ result[Caller] = Ok(Unit)
      /\ ValidTagged(document_json[Caller])
      /\ op'[Caller] = "load"
      /\ path'[Caller] = path[Caller])
     => result'[Caller] = Ok(document_json[Caller])]_vars

\* A load that returned a saved text holding blanks, as saved.
C1_Witness ==
  /\ Returned(Caller, "load")
  /\ prev[Caller] = Saved(DocSpaced)
  /\ result[Caller] = Ok(DocSpaced)

\* C2: load_flm on a well-formed container whose document.json is JSON
\* without the tag (no "format" member, one that is no string, one that is
\* another string, or a value that is no object) returns the format error.
C2_TagEnforcement ==
  [][(/\ op[Caller] \in {"save", "pack"}
      /\ pc[Caller] = "done"
      /\ result[Caller].ok
      /\ ValidUntagged(document_json[Caller])
      /\ op'[Caller] = "load")
     => result'[Caller] = Err(ErrFormat)]_vars

\* A load that refused a text carrying the tag only in a nested object.
C2_Witness ==
  /\ Returned(Caller, "load")
  /\ prev[Caller] = Packed(DocNested)
  /\ result[Caller] = Err(ErrFormat)

\* C3: whenever load_flm returns Ok(t), t is the text that was stored as
\* document.json, unchanged; it parses as JSON and carries the tag.
C3_LoadGuarantee ==
  [][(/\ op[Caller] \in {"save", "pack"}
      /\ pc[Caller] = "done"
      /\ op'[Caller] = "load"
      /\ result'[Caller].ok)
     => /\ result'[Caller].val = document_json[Caller]
        /\ from_str(result'[Caller].val).ok
        /\ HasTag(from_str(result'[Caller].val).v)]_vars

\* A load that returned, as stored, a text with more members than the tag.
C3_Witness ==
  /\ Returned(Caller, "load")
  /\ prev[Caller] = Packed(DocDeep)
  /\ result[Caller] = Ok(DocDeep)

\* C4 as stated: after every save_flm that returns Ok, the file at its
\* path is one load_flm accepts.
C4_SavedIsAccepted ==
  \A i \in Procs :
    (Returned(i, "save") /\ result[i] = Ok(Unit))
    => load_flm(fs[path[i]]).ok

\* C4: after a save_flm that returns Ok for a text that parses as JSON and
\* carries the tag, the file at its path is one load_flm accepts; save_flm
\* checks nothing, and the file of any other text is one load_flm refuses.
C4_TaggedSavedIsAccepted ==
  \A i \in Procs :
    (Returned(i, "save") /\ result[i] = Ok(Unit))
    => (load_flm(fs[path[i]]).ok <=> ValidTagged(document_json[i]))

\* A saved file that holds the tagged text of the concrete scenario.
C4_Witness ==
  /\ Returned(Caller, "save")
  /\ result[Caller] = Ok(Unit)
  /\ document_json[Caller] = DocTitled
  /\ load_flm(fs[path[Caller]]).ok

\* C5: a save_flm that returns Ok on a path that held another tagged
\* payload leaves the file load_flm returns the new payload from, and
\* the same file as on a fresh path: nothing of the old one is left.
C5_Overwrite ==
  \A i \in Procs :
    (Returned(i, "save") /\ result[i] = Ok(Unit))
    => LET before == load_flm(prev[i]) IN
       (before.ok /\ before.val # document_json[i])
       => /\ load_flm(fs[path[i]]) = Ok(document_json[i])
          /\ fs[path[i]] = Saved(document_json[i])

\* A shorter payload saved over a longer one.
C5_Witness ==
  \E i \in Procs :
    /\ Returned(i, "save")
    /\ result[i] = Ok(Unit)
    /\ prev[i] = Saved(DocTitled)
    /\ document_json[i] = DocTagged

\* The well-formed containers of the model that hold no document.json.
NoMemberZips == {EmptyZip, OtherZip}

\* C6: load_flm on a well-formed container without a member named
\* document.json returns the member-absence error, not the container
\* error.
C6_MemberAbsence ==
  \A i \in Procs :
    (Returned(i, "load") /\ prev[i] \in NoMemberZips)
    => result[i] = Err(ErrMember) /\ result[i] # Err(ErrZip)

\* A load of a container whose only members have other names.
C6_Witness ==
  \E i \in Procs :
    Returned(i, "load") /\ prev[i] = OtherZip /\ result[i] = Err(ErrMember)

\* The faults that can hit save_flm after it created its file.
FaultsAfterCreate(d) ==
  {Fault("start_file", 0)}
  \cup {Fault("write_all", k) : k \in 0..Min(MaxPartial, WriteLen(d) - 1)}
  \cup {Fault("finish", k) : k \in 0..(FinishLen - 1)}

\* The files such a save leaves.
Leftovers ==
  UNION {{save_flm(NoFile, d, f).file : f \in FaultsAfterCreate(d)} : d \in Docs}

\* The files of the model that exist and are no container.
NonContainers == {ZeroByte, Garbage} \cup Leftovers

\* C7: load_flm on a file that exists and is no container, a zero-byte
\* file included, returns the container error.
C7_Corruption ==
  \A i \in Procs :
    (Returned(i, "load") /\ prev[i] \in NonContainers)
    => result[i] = Err(ErrZip)

\* A load of a zero-byte file.
C7_Witness ==
  \E i \in Procs :
    Returned(i, "load") /\ prev[i] = ZeroByte /\ result[i] = Err(ErrZip)

\* The stages of load_flm in order, and the error of each.
StageNames == <<"open", "archive", "by_name", "read", "parse", "check">>
StageErrs == <<ErrOpen, ErrZip, ErrMember, ErrRead, ErrJson, ErrFormat>>
StageOf(s) == CHOOSE k \in DOMAIN StageNames : StageNames[k] = s

\* The first stage a file fails, one past the last when it fails none.
FirstFailure(file) ==
  IF ~file.exists THEN 1
  ELSE LET a == ZipArchive_new(file.data) IN
  IF ~a.ok THEN 2
  ELSE LET m == by_name(a.val, file.data, MemberName) IN
  IF ~m.ok THEN 3
  ELSE LET t == read_to_string(m.val, file.data) IN
  IF ~t.ok THEN 4
  ELSE LET v == from_str(t.val) IN
  IF ~v.ok THEN 5
  ELSE IF ~HasTag(v.v) THEN 6
  ELSE 7

\* A load returns the error of the first stage its file fails, and Ok
\* when it fails none.
FirstFailureReturned ==
  \A i \in Procs :
    Returned(i, "load")
    => LET k == FirstFailure(prev[i]) IN
       IF k > Len(StageNames) THEN result[i].ok
       ELSE result[i] = Err(StageErrs[k])

\* A load starts at the first stage; from a stage it goes to the next
\* one or returns that stage's error; it returns Ok only from the last;
\* once it has returned nothing more of it runs.
StagesInOrder ==
  \A i \in Procs :
    /\ (pc[i] = "idle" /\ op'[i] = "load") => pc'[i] = StageNames[1]
    /\ (op[i] = "load" /\ pc[i] # "done" /\ pc'[i] # pc[i])
       => LET k == StageOf(pc[i]) IN
          \/ /\ k < Len(StageNames)
             /\ pc'[i] = StageNames[k + 1]
             /\ result'[i] = NoResult
          \/ /\ pc'[i] = "done"
             /\ result'[i] = Err(StageErrs[k])
          \/ /\ k = Len(StageNames)
             /\ pc'[i] = "done"
             /\ result'[i].ok
    /\ (op[i] = "load" /\ pc[i] = "done")
       => \/ pc'[i] = "idle"
          \/ pc'[i] = "done" /\ result'[i] = result[i]

\* C8: load_flm runs open, decode-container, locate-member, read-text,
\* parse, check-format in that order, returns the error of the first
\* stage that fails without running a later one, and Ok only when all
\* six passed; a text that is no JSON gives the JSON error.
C8_Pipeline == []FirstFailureReturned /\ [][StagesInOrder]_vars

\* A load of a container whose document.json is no JSON.
C8_Witness ==
  \E i \in Procs :
    Returned(i, "load") /\ prev[i] = BrokenZip /\ result[i] = Err(ErrJson)

\* C9: save_flm empties its file before it writes any member, so one that
\* fails at the member-open, write or finalize step returns an error and
\* leaves a file that is neither the container that was there before nor
\* the complete new one, and load_flm does not return from it the payload
\* stored before.
C9_NotAtomic ==
  \A i \in Procs :
    /\ (op[i] = "save" /\ pc[i] = "start_file") => fs[path[i]] = ZeroByte
    /\ (Returned(i, "save") /\ ~result[i].ok
        /\ result[i].err \in {ErrAdd, ErrWrite, ErrFinalize})
       => LET before == load_flm(prev[i])
              after == load_flm(fs[path[i]])
          IN  /\ fs[path[i]] # Saved(document_json[i])
              /\ ZipArchive_new(prev[i].data).ok => fs[path[i]] # prev[i]
              /\ before.ok => after # before

\* A save over a stored payload that failed while finalizing.
C9_Witness ==
  \E i \in Procs :
    /\ Returned(i, "save")
    /\ result[i] = Err(ErrFinalize)
    /\ prev[i] = Saved(DocTitled)
    /\ document_json[i] = DocTagged

\* A call that has returned gave the result, and left the file, that
\* the whole handler gives on the file its path held when it began.
AsIfAlone ==
  \A i \in Procs :
    /\ Returned(i, "save")
       => LET r == save_flm(prev[i], document_json[i], local[i]) IN
          result[i] = r.result /\ fs[path[i]] = r.file
    /\ Returned(i, "load")
       => result[i] = load_flm(prev[i]) /\ fs[path[i]] = prev[i]

\* A step of caller i changes neither the file of another path nor
\* anything of another caller's call.
NoInterference ==
  \A i \in Procs :
    pc'[i] # pc[i]
    => /\ \A q \in Paths \ {IF pc[i] = "idle" THEN path'[i] ELSE path[i]} :
            fs'[q] = fs[q]
       /\ \A j \in Procs \ {i} :
            /\ pc'[j] = pc[j] /\ op'[j] = op[j] /\ path'[j] = path[j]
            /\ document_json'[j] = document_json[j]
            /\ local'[j] = local[j]
            /\ result'[j] = result[j] /\ prev'[j] = prev[j]

\* C10: calls on different paths, their steps interleaved in any way,
\* each give the result and leave the file they would alone; a step of
\* one changes neither the other's file nor the other's call.
C10_Independence == []AsIfAlone /\ [][NoInterference]_vars

\* A save and a load under way at once on different paths, the save's
\* file half written.
C10_Witness ==
  /\ op[1] = "save" /\ pc[1] = "finish"
  /\ op[2] = "load" /\ pc[2] = "check"
  /\ path[1] # path[2]

====
